---------------------------- MODULE Spec2Model ----------------------------
(***************************************************************************)
(* Model of zhangqi94/Flow: the Coulomb-gas energy function, the batched   *)
(* Metropolis sampler with its adaptive driver loop                        *)
(* (example_quantumdot_MCMC.ipynb) and the variational training loop       *)
(* (unnamed/part_000).                                                     *)
(*                                                                         *)
(* Numbers.  float64 values are modelled by exact rationals extended with  *)
(* the IEEE specials: [num |-> p, den |-> q] with q > 0 in lowest terms is *)
(* p/q, den = 0 encodes +inf (num = 1), -inf (num = -1) and nan (num = 0). *)
(* Rounding error is not modelled.  Particle coordinates are integers (a   *)
(* unit lattice) and the configurations used are collinear, so every       *)
(* Euclidean norm is an exact integer.                                     *)
(*                                                                         *)
(* Random draws.  A PRNG key is the path of split indices from the seed.   *)
(* The values of jax.random.normal / uniform are inputs chosen with \E.    *)
(* A uniform draw u is carried as its logarithm LnU, so that the test      *)
(* u < exp(d) is decided exactly as LnU < d (exp is strictly increasing,   *)
(* exp(-inf) = 0, exp(+inf) = +inf, comparisons with nan are false).       *)
(***************************************************************************)
EXTENDS Integers, Sequences, FiniteSets, TLC

(***************************************************************************)
(* Bounds of the model.                                                    *)
(***************************************************************************)
\* number of chains in the sampler's batch (the notebook runs 1024)
batch == 2
\* particles per configuration (the notebooks run 6 and 20)
n == 2
\* spatial dimension (the notebooks run 2)
dim == 1
\* inner Metropolis steps per mcmc call (the notebook runs 100)
mc_steps == 2
\* outer iterations of the sampling driver (the notebook runs 20)
iters == 2
\* particle 1 is proposed only inside the box -MaxPos..1
MaxPos == 1
\* outer iterations of the width-adaptation specification
AdaptIters == 5
\* the training loop is run for 0..MaxIters iterations (the notebook: 5000)
MaxIters == 4
\* abstract outcomes 0..MaxData of one evaluation of value_and_gradfn
MaxData == 1
\* the energy function is evaluated for 1..MaxN particles in 1..MaxDim dimensions
MaxN == 3
MaxDim == 2
\* coordinates 0..MaxCoord of the evaluated configurations
MaxCoord == 2
\* per-sample log-densities -MaxVal..MaxVal and energies 0..MaxVal of the estimator
MaxVal == 2

(***************************************************************************)
(* Program constants.                                                      *)
(***************************************************************************)
beta == 10

VARIABLES
    \* ---- sampler (example_quantumdot_MCMC.ipynb) ----
    pc,             \* position of the driver / mcmc: "driver", "loop", "adapt"
    ii,             \* outer iteration index
    key,            \* the driver's key
    x,              \* positions, one flat (n, dim) configuration per chain
    mc_width,       \* the driver's step width
    acc,            \* acceptance rate returned by the last mcmc call
    w,              \* mc_width as bound to the parameter of the running mcmc call
    i,              \* inner step index of fori_loop
    logp,           \* carried log-density per chain
    mkey,           \* carried key of the inner loop
    num_accepts,    \* carried accept counter
    x_proposal,     \* locals of the last executed step
    logp_proposal,
    accept,
    \* ---- observations of the sampler ----
    accepted_in_call,   \* number of (step, chain) pairs accepted since the call started
    width_used,         \* widths that scaled the proposals of the current call
    key_uses,           \* every use of a key: [key, op, line]
    printed,            \* the lines printed by the driver: [ii, acc, mc_width]
    \* ---- a second run of mcmc, for comparing two runs ----
    watch,          \* the chain on which the two runs agree
    xB,             \* positions of the second run
    logpB,          \* carried log-density of the second run
    \* ---- training loop (unnamed/part_000) ----
    num_iters,      \* the iteration count of the loop's range(...)
    params,         \* model parameters: [init, applied]
    opt_state,      \* optimizer state: [count]
    z,              \* the latent batch
    subkey,         \* the second key of the loop's split
    datas,          \* the value returned by the last update
    loss_history,   \* the statistics series
    \* ---- one evaluation of an energy or log-density function ----
    call,           \* [fn, n, dim, x]
    ret,            \* what the call returned or raised
    \* ---- one evaluation of the variational estimator (make_loss) ----
    logpx,          \* per-sample log-density of the flow
    Eloc,           \* per-sample energy
    observable      \* the statistics returned by observable_and_lossfn

mcVars == <<pc, ii, key, x, mc_width, acc, w, i, logp, mkey, num_accepts,
            x_proposal, logp_proposal, accept,
            accepted_in_call, width_used, key_uses>>

auxVars == <<printed, watch, xB, logpB>>

trainVars == <<num_iters, params, opt_state, z, subkey, datas, loss_history>>

fnVars == <<call, ret>>

lossVars == <<logpx, Eloc, observable>>

otherVars == <<trainVars, fnVars, lossVars>>

vars == <<mcVars, auxVars, otherVars>>

(***************************************************************************)
(* Extended rational arithmetic (float64 without rounding).                *)
(***************************************************************************)
Abs(a) == IF a < 0 THEN -a ELSE a

Sign(a) == IF a < 0 THEN -1 ELSE IF a > 0 THEN 1 ELSE 0

RECURSIVE GCD(_, _)
GCD(a, b) == IF b = 0 THEN a ELSE GCD(b, a % b)

Rat(p, q) ==
    LET g == GCD(Abs(p), Abs(q))
    IN  [num |-> (Sign(q) * p) \div g, den |-> Abs(q) \div g]

PInf == [num |-> 1, den |-> 0]
NInf == [num |-> -1, den |-> 0]
NaN == [num |-> 0, den |-> 0]
Zero == [num |-> 0, den |-> 1]

IsNaN(a) == a.den = 0 /\ a.num = 0
IsFinite(a) == a.den > 0

RNeg(a) == [num |-> -a.num, den |-> a.den]

RAdd(a, b) ==
    IF IsNaN(a) \/ IsNaN(b) THEN NaN
    ELSE IF a.den = 0 /\ b.den = 0 THEN (IF a.num = b.num THEN a ELSE NaN)
    ELSE IF a.den = 0 THEN a
    ELSE IF b.den = 0 THEN b
    ELSE Rat(a.num * b.den + b.num * a.den, a.den * b.den)

RSub(a, b) == RAdd(a, RNeg(b))

RMul(a, b) ==
    IF IsNaN(a) \/ IsNaN(b) THEN NaN
    ELSE IF a.den = 0 \/ b.den = 0
         THEN [num |-> Sign(a.num) * Sign(b.num), den |-> 0]
    ELSE LET g1 == GCD(Abs(a.num), b.den)
             g2 == GCD(Abs(b.num), a.den)
         IN  Rat((a.num \div g1) * (b.num \div g2), (a.den \div g2) * (b.den \div g1))

\* 1/a for a >= 0 or a = nan: 1/0.0 = +inf, 1/inf = 0
RInv(a) ==
    IF IsNaN(a) THEN NaN
    ELSE IF a.den = 0 THEN Zero
    ELSE IF a.num = 0 THEN PInf
    ELSE [num |-> Sign(a.num) * a.den, den |-> Abs(a.num)]

\* a < b in IEEE arithmetic: false as soon as one side is nan
RLess(a, b) ==
    IF IsNaN(a) \/ IsNaN(b) THEN FALSE
    ELSE IF a.den = 0 /\ b.den = 0 THEN a.num < b.num
    ELSE IF a.den = 0 THEN a.num < 0
    ELSE IF b.den = 0 THEN b.num > 0
    ELSE a.num * b.den < b.num * a.den

RLeq(a, b) == RLess(a, b) \/ (~IsNaN(a) /\ a = b)

FromInt(k) == [num |-> k, den |-> 1]

RECURSIVE RSum(_)
RSum(s) == IF s = <<>> THEN Zero ELSE RAdd(RSum(SubSeq(s, 1, Len(s) - 1)), s[Len(s)])

RECURSIVE ISum(_)
ISum(s) == IF s = <<>> THEN 0 ELSE ISum(SubSeq(s, 1, Len(s) - 1)) + s[Len(s)]

RECURSIVE Prod(_)
Prod(s) == IF s = <<>> THEN 1 ELSE Prod(SubSeq(s, 1, Len(s) - 1)) * s[Len(s)]

\* the function f on 1..k as a tuple, each entry evaluated once
RECURSIVE TupleOf(_, _)
TupleOf(f, k) == IF k = 0 THEN <<>> ELSE Append(TupleOf(f, k - 1), f[k])

Tup(f) == TupleOf(f, Cardinality(DOMAIN f))

(***************************************************************************)
(* Arrays: a shape and the entries in row-major order.                     *)
(***************************************************************************)
Arr(shape, data) == [shape |-> shape, data |-> data]

ShapeError == [ok |-> FALSE, err |-> "shape"]

Ok(v) == [ok |-> TRUE, val |-> v]

\* jnp.reshape: the entries are kept in row-major order; it raises when the
\* number of entries differs, and checks nothing else about the old shape
Reshape(a, shape) ==
    IF Prod(shape) = Len(a.data) THEN Ok(Arr(shape, a.data)) ELSE ShapeError

\* jnp.triu_indices(m, k): the (row, column) pairs, 0-based, of the entries of
\* an m x m mask on or above the k-th diagonal, in row-major order
RECURSIVE TriuScan(_, _, _)
TriuScan(m, k, t) ==
    IF t = m * m THEN <<>>
    ELSE LET row == t \div m
             col == t % m
         IN  (IF col >= row + k THEN <<(<<row, col>>)>> ELSE <<>>)
             \o TriuScan(m, k, t + 1)

TriuIndices(m, k) == TriuScan(m, k, 0)

\* the exact square root of a perfect square
ISqrt(s) == CHOOSE r \in 0..s : r * r = s

IsSquare(s) == \E r \in 0..s : r * r = s

\* (reshape(x, (n,1,dim)) - reshape(x, (1,n,dim)))[p, q]: a vector of dim entries
DiffAt(a, b, d, p, q) ==
    [c \in 1..d |-> a.data[p * d + c] - b.data[q * d + c]]

\* jnp.linalg.norm(v, axis=-1)
Norm(v) == ISqrt(ISum([c \in 1..Len(v) |-> v[c] * v[c]]))

\* the mutant of PairIndex: the diagonal is enumerated too
PairIndexDiagonal(m) == TriuIndices(m, 0)

\* the index arrays i, j of energy_fn
PairIndex(m) == TriuIndices(m, 1)

\* energy_fn(x, n, dim): the pair list, the terms 1/rij and the returned value
energy_fn(a, m, d) ==
    LET idx == PairIndex(m)
        l == Reshape(a, <<m, 1, d>>)
        r == Reshape(a, <<1, m, d>>)
    IN  IF ~l.ok \/ ~r.ok THEN ShapeError
        ELSE LET rij == Tup([t \in 1..Len(idx) |->
                            Norm(DiffAt(l.val, r.val, d, idx[t][1], idx[t][2]))])
                 terms == Tup([t \in 1..Len(idx) |-> RInv(FromInt(rij[t]))])
                 conf == ISum([c \in 1..Len(a.data) |-> a.data[c] * a.data[c]])
             IN  [ok |-> TRUE, val |-> RAdd(FromInt(conf), RSum(terms)),
                  pairs |-> idx, terms |-> terms]


(***************************************************************************)
(* PRNG keys.                                                              *)
(***************************************************************************)
PRNGKey(seed) == <<seed>>

\* jax.random.split(k, num): num fresh keys derived from k
Split(k, num) == [t \in 1..num |-> Append(k, t - 1)]

Use(k, op, line) == [key |-> k, op |-> op, line |-> line]

(***************************************************************************)
(* The sampler: example_quantumdot_MCMC.ipynb.                             *)
(***************************************************************************)
Chains == 1..batch

\* a collinear configuration: particle 1 at a, particle p >= 2 at p - 1 on the
\* first axis, every other coordinate 0
Conf(a) ==
    Tup([t \in 1..(n * dim) |->
        IF (t - 1) % dim # 0 THEN 0 ELSE IF t = 1 THEN a ELSE (t - 1) \div dim])

\* values of jax.random.normal(key, (batch, n, dim)) taken for the initial x
InitConfigs == {Conf(a) : a \in (-MaxPos)..1}

\* logp(beta, x, n, dim) for one chain: -beta * energy_fn(x, n, dim)
logp_one(b, xk, m, d) == RMul(FromInt(-b), energy_fn(Arr(<<m, d>>, xk), m, d).val)

\* the mutant of logp_vmap: the energy is summed over the whole batch
logp_summed(b, xs, m, d) ==
    LET tot == RSum([k \in 1..Len(xs) |-> logp_one(b, xs[k], m, d)])
    IN  Tup([k \in DOMAIN xs |-> tot])

\* jax.vmap(logp, in_axes=(None, 0, None, None)): chain by chain
logp_vmap(b, xs, m, d) == Tup([k \in DOMAIN xs |-> logp_one(b, xs[k], m, d)])

\* logp_fn = lambda x: logp(beta, x, n, dim)
logp_fn(xs) == logp_vmap(beta, xs, n, dim)

mc_width0 == Rat(1, 10)
HighRate == Rat(525, 1000)
LowRate == Rat(475, 1000)
UpFactor == Rat(105, 100)
DownFactor == Rat(95, 100)

\* the mutant of AdaptWidth: the comparisons are not strict
AdaptWidthNonStrict(a, wd) ==
    LET w1 == IF RLeq(HighRate, a) THEN RMul(wd, UpFactor) ELSE wd
    IN  IF RLeq(a, LowRate) THEN RMul(w1, DownFactor) ELSE w1

\* if acc > 0.525: mc_width *= 1.05 ; if acc < 0.475: mc_width *= 0.95
AdaptWidth(a, wd) ==
    LET w1 == IF RLess(HighRate, a) THEN RMul(wd, UpFactor) ELSE wd
    IN  IF RLess(a, LowRate) THEN RMul(w1, DownFactor) ELSE w1

\* an integral rational as a lattice coordinate
Lattice(q) == CHOOSE k \in {q.num} : q.den = 1

\* the noise tensors enumerated for one chain whose proposals are scaled by s:
\* particle 1 is displaced by one lattice unit along the first axis, inside the box
NoiseFor(s, delta) ==
    Tup([t \in 1..(n * dim) |-> IF t = 1 THEN RMul(FromInt(delta), RInv(s)) ELSE Zero])

NoiseSet(s, xk) ==
    {NoiseFor(s, delta) : delta \in {d \in {-1, 1} : xk[1] + d \in (-MaxPos)..1}}

\* logarithms of the uniform draws enumerated: u = 0 and u = exp(-1/1000)
LnU == {NInf, Rat(-1, 1000)}

\* the mutant of ProposalScale: the width shrinks with every inner step
ProposalScaleDecay(wd, step) == IF step > 0 THEN RMul(wd, DownFactor) ELSE wd

\* the factor of the noise in x + mc_width * normal(...)
ProposalScale(wd, step) == wd

\* x + s * noise, for a batch
Propose(xs, s, noise) ==
    Tup([k \in DOMAIN xs |->
        Tup([t \in DOMAIN xs[k] |->
            Lattice(RAdd(FromInt(xs[k][t]), RMul(s, noise[k][t])))])])

\* uniform(key_accept, ratio.shape) < exp(logp_proposal - logp), chain by chain
AcceptMask(lnu, lp_prop, lp) ==
    Tup([k \in DOMAIN lp |-> RLess(lnu[k], RSub(lp_prop[k], lp[k]))])

\* the mutant of Where3: the positions are never replaced
Where3Keep(mask, a, b) == b

\* jnp.where(accept[:, None, None], a, b): the mask is broadcast over a chain's entries
Where3(mask, a, b) ==
    Tup([k \in DOMAIN a |->
        Tup([t \in DOMAIN a[k] |-> IF mask[k] THEN a[k][t] ELSE b[k][t]])])

\* the mutant of Where1: the proposal's log-density is always kept
Where1Always(mask, a, b) == a

\* jnp.where(accept, a, b)
Where1(mask, a, b) == Tup([k \in DOMAIN a |-> IF mask[k] THEN a[k] ELSE b[k]])

\* the mutant of BoolSum: one accept is counted per step, whatever the number of chains
BoolSumAny(mask, k) == IF \E c \in 1..k : mask[c] THEN 1 ELSE 0

RECURSIVE BoolSum(_, _)
\* accept.sum()
BoolSum(mask, k) == IF k = 0 THEN 0 ELSE BoolSum(mask, k - 1) + (IF mask[k] THEN 1 ELSE 0)

\* num_accepts / (mc_steps * batch)
RDiv(p, q) == IF q = 0 THEN (IF p = 0 THEN NaN ELSE PInf) ELSE Rat(p, q)

\* the accept counter of the initial carry of fori_loop
FirstAccepts == 0

\* the value of a variable that holds nothing: a local outside its function,
\* a result that no statement reads before it is assigned again
None == <<>>

InitMC ==
    /\ pc = "driver"
    /\ ii = 0
    /\ key = PRNGKey(0)
    /\ x \in [Chains -> InitConfigs]
    /\ mc_width = mc_width0
    /\ acc = None
    /\ w = None
    /\ i = None
    /\ logp = None
    /\ mkey = None
    /\ num_accepts = None
    /\ x_proposal = None
    /\ logp_proposal = None
    /\ accept = None
    /\ accepted_in_call = 0
    /\ width_used = <<>>
    /\ key_uses = {Use(PRNGKey(0), "normal", 120)}

\* the driver splits its key and calls mcmc, which evaluates logp_init and
\* builds the initial carry of fori_loop
Call ==
    /\ pc = "driver"
    /\ ii < iters
    /\ \E ks \in {Split(key, 2)} :
         /\ key' = ks[1]
         /\ mkey' = ks[2]
         /\ key_uses' = key_uses \cup {Use(key, "split", 124)}
    /\ w' = mc_width
    /\ logp' = logp_fn(x)
    /\ num_accepts' = FirstAccepts
    /\ i' = 0
    /\ accepted_in_call' = 0
    /\ width_used' = <<>>
    /\ pc' = "loop"
    /\ UNCHANGED <<ii, x, mc_width, acc, x_proposal, logp_proposal, accept>>

\* one iteration of fori_loop: step(i, state).  The noise is drawn chain by
\* chain; the uniform draws enumerated are those equal for all chains.
Step ==
    /\ pc = "loop"
    /\ i < mc_steps
    /\ \E s \in {ProposalScale(w, i)} :
       \E noise \in [Chains -> UNION {NoiseSet(s, x[k]) : k \in Chains}],
          u \in LnU :
         /\ \A k \in Chains : noise[k] \in NoiseSet(s, x[k])
         /\ \E xp \in {Propose(x, s, noise)} :
            \E lpp \in {logp_fn(xp)} :
            \E a \in {AcceptMask([k \in Chains |-> u], lpp, logp)} :
              /\ x_proposal' = xp
              /\ logp_proposal' = lpp
              /\ accept' = a
              /\ x' = Where3(a, xp, x)
              /\ logp' = Where1(a, lpp, logp)
              /\ num_accepts' = num_accepts + BoolSum(a, batch)
              /\ accepted_in_call' = accepted_in_call + Cardinality({c \in Chains : a[c]})
         /\ width_used' = Append(width_used, s)
    /\ \E ks \in {Split(mkey, 3)} :
         /\ mkey' = ks[1]
         /\ key_uses' = key_uses \cup {Use(mkey, "split", 82),
                                       Use(ks[2], "normal", 84),
                                       Use(ks[3], "uniform", 88)}
    /\ i' = i + 1
    /\ UNCHANGED <<pc, ii, key, mc_width, acc, w>>

\* after the loop mcmc returns x and the acceptance rate; its locals are gone
Return ==
    /\ pc = "loop"
    /\ i = mc_steps
    /\ acc' = RDiv(num_accepts, mc_steps * batch)
    /\ pc' = "adapt"
    /\ w' = None
    /\ i' = None
    /\ logp' = None
    /\ mkey' = None
    /\ num_accepts' = None
    /\ x_proposal' = None
    /\ logp_proposal' = None
    /\ accept' = None
    /\ UNCHANGED <<ii, key, x, mc_width, accepted_in_call, width_used, key_uses>>

\* the rest of the driver's loop body: the step width is adapted.  acc is not
\* read again before the next call assigns it.
Adapt ==
    /\ pc = "adapt"
    /\ mc_width' = AdaptWidth(acc, mc_width)
    /\ ii' = ii + 1
    /\ acc' = None
    /\ pc' = "driver"
    /\ UNCHANGED <<key, x, w, i, logp, mkey, num_accepts, x_proposal,
                   logp_proposal, accept, accepted_in_call, width_used, key_uses>>

IdleAux == printed = None /\ watch = None /\ xB = None /\ logpB = None

IdleTrain ==
    /\ num_iters = None /\ params = None /\ opt_state = None /\ z = None
    /\ subkey = None /\ datas = None /\ loss_history = None

IdleFn == call = None /\ ret = None

IdleLoss == logpx = None /\ Eloc = None /\ observable = None

NextMC == (Call \/ Step \/ Return \/ Adapt) /\ UNCHANGED <<auxVars, otherVars>>

Init == InitMC /\ IdleAux /\ IdleTrain /\ IdleFn /\ IdleLoss

Next == NextMC

Spec == Init /\ [][Next]_vars

(***************************************************************************)
(* The driver loop alone: the acceptance rate returned by mcmc is an input.*)
(***************************************************************************)
\* the rates 0.4, 0.5, 0.6 of the documented scenario and the two thresholds themselves
AccRates == {Rat(2, 5), Rat(19, 40), Rat(1, 2), Rat(21, 40), Rat(3, 5)}

\* the notebook's initial width 0.1 and the width 1.0 of the documented scenario
InitialWidths == {mc_width0, FromInt(1)}

InitAdapt ==
    /\ pc = "driver"
    /\ ii = 0
    /\ key = PRNGKey(0)
    /\ mc_width \in InitialWidths
    /\ printed = <<>>
    /\ x = None /\ acc = None /\ w = None /\ i = None /\ logp = None
    /\ mkey = None /\ num_accepts = None /\ x_proposal = None
    /\ logp_proposal = None /\ accept = None /\ accepted_in_call = 0
    /\ width_used = <<>> /\ key_uses = {}
    /\ watch = None /\ xB = None /\ logpB = None
    /\ IdleTrain /\ IdleFn /\ IdleLoss

\* one pass of the driver's loop body, mcmc returning the rate a
OuterIteration ==
    /\ pc = "driver"
    /\ ii < AdaptIters
    /\ \E a \in AccRates :
         /\ printed' = Append(printed, [ii |-> ii, acc |-> a, mc_width |-> mc_width])
         /\ mc_width' = AdaptWidth(a, mc_width)
    /\ key' = Split(key, 2)[1]
    /\ ii' = ii + 1
    /\ UNCHANGED <<pc, x, acc, w, i, logp, mkey, num_accepts, x_proposal, logp_proposal,
                   accept, accepted_in_call, width_used, key_uses, watch, xB, logpB,
                   otherVars>>

SpecAdapt == InitAdapt /\ [][OuterIteration]_vars

(***************************************************************************)
(* Two runs of one mcmc call that agree on the chain `watch`: its initial  *)
(* position, its noise and its uniform draws.  The other chains start      *)
(* anywhere and draw differently in the second run.                        *)
(***************************************************************************)
\* a noise tensor for a chain at xb that differs from nz when the box allows one
OtherNoise(s, xb, nz) ==
    CHOOSE m \in NoiseSet(s, xb) : m # nz \/ NoiseSet(s, xb) \subseteq {nz}

OtherLnU(u) == CHOOSE v \in LnU : v # u

InitPair ==
    /\ pc = "pair"
    /\ watch \in Chains
    /\ x \in [Chains -> InitConfigs]
    /\ xB \in [Chains -> InitConfigs]
    /\ xB[watch] = x[watch]
    /\ w = mc_width0
    /\ mc_width = mc_width0
    /\ i = 0
    /\ logp = logp_fn(x)
    /\ logpB = logp_fn(xB)
    /\ ii = 0 /\ key = PRNGKey(0) /\ acc = None /\ mkey = None
    /\ num_accepts = 0 /\ x_proposal = None /\ logp_proposal = None
    /\ accept = None /\ accepted_in_call = 0 /\ width_used = <<>>
    /\ key_uses = {} /\ printed = None
    /\ IdleTrain /\ IdleFn /\ IdleLoss

\* step(i, state) in both runs
PairStep ==
    /\ pc = "pair"
    /\ i < mc_steps
    /\ \E s \in {ProposalScale(w, i)} :
       \E noise \in [Chains -> UNION {NoiseSet(s, x[k]) : k \in Chains}],
          u \in LnU :
         /\ \A k \in Chains : noise[k] \in NoiseSet(s, x[k])
         /\ \E noiseB \in {[k \in Chains |->
                              IF k = watch THEN noise[k]
                              ELSE OtherNoise(s, xB[k], noise[k])]} :
            \E lnuA \in {[k \in Chains |-> u]} :
            \E lnuB \in {[k \in Chains |-> IF k = watch THEN u ELSE OtherLnU(u)]} :
            \E xp \in {Propose(x, s, noise)} :
            \E xpB \in {Propose(xB, s, noiseB)} :
            \E lpp \in {logp_fn(xp)} :
            \E lppB \in {logp_fn(xpB)} :
            \E a \in {AcceptMask(lnuA, lpp, logp)} :
            \E aB \in {AcceptMask(lnuB, lppB, logpB)} :
              /\ x' = Where3(a, xp, x)
              /\ logp' = Where1(a, lpp, logp)
              /\ xB' = Where3(aB, xpB, xB)
              /\ logpB' = Where1(aB, lppB, logpB)
              /\ num_accepts' = num_accepts + BoolSum(a, batch)
    /\ i' = i + 1
    /\ UNCHANGED <<pc, ii, key, mc_width, acc, w, mkey, x_proposal, logp_proposal,
                   accept, accepted_in_call, width_used, key_uses, printed, watch,
                   otherVars>>

SpecPair == InitPair /\ [][PairStep]_vars

(***************************************************************************)
(* The training notebook: unnamed/part_000.                                *)
(***************************************************************************)
\* jax.random.normal(k, shape): the draw is a function of the key and the shape
normal(k, shape) == [key |-> k, shape |-> shape]

\* flow.init(k, ...): parameters drawn from k, no update applied yet
flow_init(k) == [init |-> k, applied |-> <<>>]

\* optimizer.init(params)
optimizer_init(p) == [count |-> 0]

\* value_and_gradfn(params, z): the statistics d stand for the estimator's value
value_and_gradfn(p, zz, d) ==
    [datas |-> [stats |-> d, x |-> zz.key],
     grad  |-> [at |-> Len(p.applied), z |-> zz.key]]

\* optimizer.update(grad_params, opt_state)
optimizer_update(g, o) ==
    [updates |-> [grad |-> g, count |-> o.count + 1],
     opt_state |-> [count |-> o.count + 1]]

\* optax.apply_updates(params, updates)
apply_updates(p, u) == [p EXCEPT !.applied = Append(@, u)]

\* the mutant of update: the optimizer is applied twice with the same gradient
updateTwice(p, o, zz, d) ==
    LET vg == value_and_gradfn(p, zz, d)
        u1 == optimizer_update(vg.grad, o)
        u2 == optimizer_update(vg.grad, u1.opt_state)
    IN  [params |-> apply_updates(apply_updates(p, u1.updates), u2.updates),
         opt_state |-> u2.opt_state, datas |-> vg.datas]

\* update(params, opt_state, z)
update(p, o, zz, d) ==
    LET vg == value_and_gradfn(p, zz, d)
        u == optimizer_update(vg.grad, o)
    IN  [params |-> apply_updates(p, u.updates),
         opt_state |-> u.opt_state, datas |-> vg.datas]

\* the next value of the loop variable of `for i in range(num_iters)`; i is -1
\* while the loop has not bound it
NextIndex == i + 1

IdleMC ==
    /\ ii = None /\ x = None /\ mc_width = None /\ acc = None /\ w = None
    /\ logp = None /\ mkey = None /\ num_accepts = None /\ x_proposal = None
    /\ logp_proposal = None /\ accept = None /\ accepted_in_call = None
    /\ width_used = None

InitTrain ==
    /\ pc = "flow"
    /\ key = PRNGKey(42)
    /\ num_iters \in 0..MaxIters
    /\ i = -1
    /\ params = None /\ opt_state = None /\ z = None /\ subkey = None
    /\ datas = None /\ loss_history = None
    /\ key_uses = {}
    /\ IdleMC /\ IdleAux /\ IdleFn /\ IdleLoss

\* params = flow.init(key, jnp.zeros((n, dim)))
FlowInit ==
    /\ pc = "flow"
    /\ params' = flow_init(key)
    /\ key_uses' = key_uses \cup {Use(key, "init", 154)}
    /\ pc' = "latent"
    /\ UNCHANGED <<key, i, num_iters, opt_state, z, subkey, datas, loss_history>>

\* z = jax.random.normal(key, (batch, n, dim)) of the cell that tests logp
LatentDraw ==
    /\ pc = "latent"
    /\ z' = normal(key, <<batch, n, dim>>)
    /\ key_uses' = key_uses \cup {Use(key, "normal", 202)}
    /\ pc' = "optimizer"
    /\ UNCHANGED <<key, i, num_iters, params, opt_state, subkey, datas, loss_history>>

\* opt_state = optimizer.init(params); loss_history = []
OptimizerInit ==
    /\ pc = "optimizer"
    /\ opt_state' = optimizer_init(params)
    /\ loss_history' = <<>>
    /\ pc' = "for"
    /\ UNCHANGED <<key, i, num_iters, params, z, subkey, datas, key_uses>>

\* for i in range(num_iters): key, subkey = jax.random.split(key)
TrainSplit ==
    /\ pc = "for"
    /\ NextIndex < num_iters
    /\ i' = NextIndex
    /\ \E ks \in {Split(key, 2)} : key' = ks[1] /\ subkey' = ks[2]
    /\ key_uses' = key_uses \cup {Use(key, "split", 308)}
    /\ pc' = "sample"
    /\ UNCHANGED <<num_iters, params, opt_state, z, datas, loss_history>>

\* z = jax.random.normal(key, (batch, n, dim))
TrainSample ==
    /\ pc = "sample"
    /\ z' = normal(key, <<batch, n, dim>>)
    /\ key_uses' = key_uses \cup {Use(key, "normal", 310)}
    /\ pc' = "update"
    /\ UNCHANGED <<key, i, num_iters, params, opt_state, subkey, datas, loss_history>>

\* params, opt_state, datas = update(params, opt_state, z)
TrainUpdate ==
    /\ pc = "update"
    /\ \E d \in 0..MaxData :
       \E r \in {update(params, opt_state, z, d)} :
         /\ params' = r.params
         /\ opt_state' = r.opt_state
         /\ datas' = r.datas
    /\ pc' = "append"
    /\ UNCHANGED <<key, i, num_iters, z, subkey, loss_history, key_uses>>

\* loss_history.append(...)
TrainAppend ==
    /\ pc = "append"
    /\ loss_history' = Append(loss_history, datas.stats)
    /\ pc' = "for"
    /\ UNCHANGED <<key, i, num_iters, params, opt_state, z, subkey, datas, key_uses>>

\* the range is exhausted: print(loss_history[-1])
TrainFinish ==
    /\ pc = "for"
    /\ NextIndex >= num_iters
    /\ pc' = IF loss_history = <<>> THEN "IndexError" ELSE "done"
    /\ UNCHANGED <<key, i, num_iters, params, opt_state, z, subkey, datas,
                   loss_history, key_uses>>

NextTrain ==
    /\ \/ FlowInit \/ LatentDraw \/ OptimizerInit
       \/ TrainSplit \/ TrainSample \/ TrainUpdate \/ TrainAppend \/ TrainFinish
    /\ UNCHANGED <<ii, x, mc_width, acc, w, logp, mkey, num_accepts, x_proposal,
                   logp_proposal, accept, accepted_in_call, width_used,
                   auxVars, fnVars, lossVars>>

SpecTrain == InitTrain /\ [][NextTrain]_vars

(***************************************************************************)
(* One evaluation of energy_fn or of a log-density on an array of any      *)
(* shape.                                                                  *)
(***************************************************************************)
UnpackError == [ok |-> FALSE, err |-> "unpack"]

\* the body of logp(beta, x, n, dim) of the sampling notebook, for one sample
logp_sample(b, a, m, d) ==
    LET e == energy_fn(a, m, d)
    IN  IF e.ok THEN Ok(RMul(FromInt(-b), e.val)) ELSE e

\* NeuralNetwork.__call__ of a network built for (m, d); the values computed by
\* the MLP are not evaluated
NeuralNetwork(zz, m, d) ==
    LET flat == Reshape(zz, <<m * d>>)
    IN  IF flat.ok THEN Ok(Arr(<<m, d>>, <<"MLP", flat.val.data>>)) ELSE ShapeError

\* logp(z, params) of make_logp, for a flow built for (m, d): n and dim are
\* unpacked from z.shape, whatever it is
logp_novmap(zz, m, d) ==
    IF Len(zz.shape) # 2 THEN UnpackError
    ELSE LET zn == zz.shape[1]
             zd == zz.shape[2]
             xx == NeuralNetwork(zz, m, d)
             again == Reshape(zz, <<zn, zd>>)
         IN  IF ~xx.ok \/ ~again.ok THEN ShapeError
             ELSE Ok([x |-> xx.val, jac |-> <<m * d, zn * zd>>])

\* the shapes handed to a function that declares (m, d)
InputShapes(m, d) == {<<m, d>>, <<d, m>>, <<m * d>>, <<m + 1, d>>}

\* entries of a collinear array: coordinate c[p] on the first axis of the p-th
\* group of d entries, 0 elsewhere
AxisData(c, d) ==
    Tup([t \in 1..(Len(c) * d) |->
        IF (t - 1) % d = 0 THEN c[((t - 1) \div d) + 1] ELSE 0])

Inputs ==
    UNION {
      UNION {
        UNION {
          {[n |-> m, dim |-> d, x |-> Arr(sh, AxisData(Tup(c), d))] :
              c \in [1..(Prod(sh) \div d) -> 0..MaxCoord]}
          : sh \in InputShapes(m, d)}
        : d \in 1..MaxDim}
      : m \in 1..MaxN}

InitEnergy ==
    /\ pc = "call"
    /\ call \in Inputs
    /\ ret = None
    /\ key = None /\ i = None /\ key_uses = None
    /\ IdleMC /\ IdleAux /\ IdleTrain /\ IdleLoss

\* energy_fn(x, n, dim)
EvalEnergyFn ==
    /\ pc = "call"
    /\ ret' = [fn |-> "energy_fn", out |-> energy_fn(call.x, call.n, call.dim)]
    /\ pc' = "returned"

\* logp(beta, x, n, dim) of the sampling notebook
EvalLogp ==
    /\ pc = "call"
    /\ ret' = [fn |-> "logp", out |-> logp_sample(beta, call.x, call.n, call.dim)]
    /\ pc' = "returned"

\* logp(z, params) of make_logp
EvalLogpFlow ==
    /\ pc = "call"
    /\ ret' = [fn |-> "make_logp.logp", out |-> logp_novmap(call.x, call.n, call.dim)]
    /\ pc' = "returned"

NextEnergy ==
    /\ EvalEnergyFn \/ EvalLogp \/ EvalLogpFlow
    /\ UNCHANGED <<call, ii, key, x, mc_width, acc, w, i, logp, mkey, num_accepts,
                   x_proposal, logp_proposal, accept, accepted_in_call, width_used,
                   key_uses, auxVars, trainVars, lossVars>>

SpecEnergy == InitEnergy /\ [][NextEnergy]_vars

(***************************************************************************)
(* The variational estimator: observable_and_lossfn of make_loss.  A       *)
(* standard deviation is carried as its square, the variance, so that no   *)
(* square root is taken: jnp.std(v)/jnp.sqrt(batch) is carried as          *)
(* var(v)/batch.                                                           *)
(***************************************************************************)
\* v.mean()
Mean(v) == RMul(RSum(v), RInv(FromInt(Len(v))))

\* the sum over the batch of (value - batch mean)^2
SumSqDev(v) ==
    LET mu == Mean(v)
    IN  RSum(Tup([k \in 1..Len(v) |-> RMul(RSub(v[k], mu), RSub(v[k], mu))]))

\* jnp.std(v) squared: the mean of the squared deviations (ddof = 0)
StdSq(v) == RMul(SumSqDev(v), RInv(FromInt(Len(v))))

\* (jnp.std(v) / jnp.sqrt(b)) squared
StdErrSq(v, b) == RMul(StdSq(v), RInv(FromInt(b)))

\* Floc = logpx / beta + Eloc
FlocOf(lp, e, b) ==
    Tup([k \in 1..Len(lp) |-> RAdd(RMul(lp[k], RInv(FromInt(b))), e[k])])

\* the observable of observable_and_lossfn, each standard error squared
observable_and_lossfn(lp, e, bt, b) ==
    LET Floc == FlocOf(lp, e, b)
        S == Tup([k \in 1..Len(lp) |-> RNeg(lp[k])])
    IN  [Floc |-> Floc,
         F_mean |-> Mean(Floc), F_std_sq |-> StdErrSq(Floc, bt),
         E_mean |-> Mean(e), E_std_sq |-> StdErrSq(e, bt),
         S_mean |-> RNeg(Mean(lp)), S_std_sq |-> StdErrSq(S, bt)]

InitLoss ==
    /\ pc = "loss"
    /\ logpx \in [Chains -> {FromInt(v) : v \in (-MaxVal)..MaxVal}]
    /\ Eloc \in [Chains -> {FromInt(v) : v \in 0..MaxVal}]
    /\ observable = None
    /\ key = None /\ i = None /\ key_uses = None
    /\ IdleMC /\ IdleAux /\ IdleTrain /\ IdleFn

\* one evaluation of observable_and_lossfn on the per-sample values
Observe ==
    /\ pc = "loss"
    /\ observable' = observable_and_lossfn(Tup(logpx), Tup(Eloc), batch, beta)
    /\ pc' = "observed"
    /\ UNCHANGED <<logpx, Eloc, ii, key, x, mc_width, acc, w, i, logp, mkey,
                   num_accepts, x_proposal, logp_proposal, accept,
                   accepted_in_call, width_used, key_uses, auxVars, trainVars,
                   fnVars>>

SpecLoss == InitLoss /\ [][Observe]_vars

(***************************************************************************)
(* Properties of the sampler.                                              *)
(***************************************************************************)
\* the multiplier the step width must receive for the rate a, stated on the
\* integers: 21/20 when a > 0.525, 19/20 when a < 0.475, 1 otherwise
ExpectedFactor(a) ==
    IF 1000 * a.num > 525 * a.den THEN <<21, 20>>
    ELSE IF 1000 * a.num < 475 * a.den THEN <<19, 20>>
    ELSE <<1, 1>>

\* the width the driver holds after the t-th printed iteration
WidthAfter(t) == IF t < Len(printed) THEN printed[t + 1].mc_width ELSE mc_width

ScenarioRates == <<Rat(3, 5), Rat(3, 5), Rat(2, 5), Rat(2, 5), Rat(1, 2)>>

ScenarioWidths ==
    <<Rat(105, 100), Rat(11025, 10000), Rat(1047375, 1000000),
      Rat(99500625, 100000000), Rat(99500625, 100000000)>>

InScenario ==
    /\ Len(printed) = Len(ScenarioRates)
    /\ printed[1].mc_width = FromInt(1)
    /\ \A t \in 1..Len(printed) : printed[t].acc = ScenarioRates[t]

\* C1: after each outer iteration the width is the previous width times 1.05
\* when the rate is above 0.525, times 0.95 when it is below 0.475 and unchanged
\* otherwise (the thresholds included); for the rates 0.6, 0.6, 0.4, 0.4, 0.5 from
\* width 1.0 the widths are 1.05, 1.1025, 1.047375, 0.99500625, 0.99500625.
C1_WidthAdaptation ==
    /\ \A t \in 1..Len(printed) :
          LET f == ExpectedFactor(printed[t].acc)
              before == printed[t].mc_width
              after == WidthAfter(t)
          IN  after = Rat(before.num * f[1], before.den * f[2])
    /\ InScenario => \A t \in 1..Len(printed) : WidthAfter(t) = ScenarioWidths[t]

\* C1 witness: the documented scenario has been run to its end
C1_Witness == InScenario /\ ii = 5 /\ mc_width = Rat(99500625, 100000000)

\* C2: in one step a chain that accepts takes the proposal's position and
\* log-density, a chain that rejects keeps both.
C2_AcceptAdoptsProposal ==
    [][(pc = "loop" /\ pc' = "loop") =>
          \A k \in Chains :
             IF accept'[k]
             THEN x'[k] = x_proposal'[k] /\ logp'[k] = logp_proposal'[k]
             ELSE x'[k] = x[k] /\ logp'[k] = logp[k]]_vars

\* C2 witness: a step in which one chain accepted a move and another rejected one
C2_Witness ==
    /\ pc = "loop"
    /\ i >= 1
    /\ \E k1, k2 \in Chains :
          /\ accept[k1] /\ ~accept[k2]
          /\ x[k1] = x_proposal[k1]
          /\ x[k2] # x_proposal[k2]
          /\ logp[k2] # logp_proposal[k2]

\* C3: the rate returned by a call is the number of (step, chain) pairs accepted
\* during that call over mc_steps * batch; the counter starts at 0 in every call,
\* grows by the number of accepting chains, and the rate lies in [0, 1].
C3_AcceptanceRate ==
    mc_steps >= 1 =>
       /\ pc = "loop" => num_accepts = accepted_in_call
       /\ (pc = "loop" /\ i = 0) => num_accepts = 0
       /\ pc = "adapt" =>
             /\ acc.den > 0
             /\ acc.num * (mc_steps * batch) = accepted_in_call * acc.den
             /\ 0 <= acc.num /\ acc.num <= acc.den

\* C3 witness: a second call returns a rate of one accepted pair, after a first
\* call whose rate was high enough to widen the step
C3_Witness ==
    /\ pc = "adapt"
    /\ ii = 1
    /\ RLess(mc_width0, mc_width)
    /\ accepted_in_call = 1
    /\ acc = Rat(1, mc_steps * batch)

\* C4: after any number of steps the position and log-density of a chain are the
\* same in two runs that agree on that chain's initial position and draws,
\* whatever the other chains hold and draw.
C4_ChainIndependent ==
    pc = "pair" => x[watch] = xB[watch] /\ logp[watch] = logpB[watch]

\* C4 witness: all steps done, the watched chain has moved, the others differ
C4_Witness ==
    /\ pc = "pair"
    /\ i = mc_steps
    /\ \E k \in Chains \ {watch} : x[k] # xB[k] /\ logp[k] # logpB[k]
    /\ num_accepts > 0
    /\ logp[watch] # logp_fn([k \in Chains |-> Conf(0)])[watch]

\* C7: every proposal of a call is scaled by the width the driver held when it
\* called, and the driver's width changes only after the call has returned.
C7_WidthFixedInCall ==
    /\ [](pc \in {"loop", "adapt"} =>
            /\ \A t \in 1..Len(width_used) : width_used[t] = mc_width
            /\ pc = "loop" => (w = mc_width /\ Len(width_used) = i)
            /\ pc = "adapt" => Len(width_used) = mc_steps)
    /\ [][mc_width' # mc_width => (pc = "adapt" /\ pc' = "driver")]_vars

\* C7 witness: the last step of a call made after the width was adapted
C7_Witness ==
    /\ pc = "loop"
    /\ i = mc_steps
    /\ mc_steps >= 2
    /\ ii >= 1
    /\ mc_width # mc_width0
    /\ Len(width_used) = mc_steps

\* C12: inside an mcmc call, before the first step and after every step, the
\* carried log-density of every chain is logp_fn at the chain's carried
\* position; a call starts by computing it from the positions the previous
\* call left, which nothing changes between two calls.
C12_CachedLogpFresh ==
    /\ [](pc = "loop" => \A k \in Chains : logp[k] = logp_fn(x)[k])
    /\ [][(pc = "driver" /\ pc' = "loop") => (x' = x /\ logp' = logp_fn(x))]_vars
    /\ [][x' # x => (pc = "loop" /\ pc' = "loop")]_vars

\* C12 witness: the end of a later call in which a chain has just moved to a
\* place with another log-density while another chain stayed
C12_Witness ==
    /\ pc = "loop"
    /\ ii >= 1
    /\ i = mc_steps
    /\ \E k1, k2 \in Chains :
          /\ accept[k1] /\ ~accept[k2]
          /\ logp[k1] = logp_proposal[k1]
          /\ logp[k1] = logp_fn(x)[k1]
          /\ logp[k2] # logp_proposal[k2]
          /\ logp[k2] = logp_fn(x)[k2]

(***************************************************************************)
(* Properties of the training loop.                                        *)
(***************************************************************************)
Terminated == pc \in {"done", "IndexError"}

\* C5: a run of the training loop for 0 iterations completes, with the
\* parameters and the optimizer state as initialised and an empty series.
C5_ZeroIterationsCompletes ==
    (num_iters = 0 /\ Terminated) =>
        /\ pc = "done"
        /\ params = flow_init(PRNGKey(42))
        /\ opt_state = optimizer_init(params)
        /\ loss_history = <<>>

\* what the run for 0 iterations does: nothing is updated, nothing is recorded,
\* and the statement after the loop raises
C5_ZeroIterationsRaises ==
    (num_iters = 0 /\ Terminated) =>
        /\ pc = "IndexError"
        /\ params = flow_init(PRNGKey(42))
        /\ opt_state = optimizer_init(params)
        /\ loss_history = <<>>

C5_Witness == num_iters = 0 /\ pc = "IndexError" /\ loss_history = <<>>

SamplingOps == {"normal", "uniform", "init"}

\* C6: a key passed to a sampling call has no other use: it is not split and
\* it is not passed to a second sampling call.
C6_FreshKeys ==
    \A u \in key_uses : u.op \in SamplingOps =>
        \A v \in key_uses : v.key = u.key => v = u

\* the keys of the latent batches drawn inside the loop so far
LoopDrawKeys == {u.key : u \in {v \in key_uses : v.line = 310}}

\* what the loop does with keys: the draws of different iterations use
\* different keys, and each of these keys is the one the next iteration splits
C6_LoopKeysSplitAgain ==
    /\ Cardinality(LoopDrawKeys) =
          (IF pc \in {"update", "append", "for", "done"} THEN i + 1
           ELSE IF pc = "sample" THEN i ELSE 0)
    /\ \A k \in LoopDrawKeys :
          k # key => Use(k, "split", 308) \in key_uses

C6_Witness ==
    /\ pc = "sample" /\ i = 1
    /\ Use(key, "normal", 310) \notin key_uses
    /\ \E u \in key_uses : u.op = "normal" /\ u.line = 310
                           /\ Use(u.key, "split", 308) \in key_uses

\* C8: every iteration applies one optimizer update and appends one record:
\* after k iterations the parameters have been updated k times, the optimizer
\* has counted k updates and the series has k entries; the loop ends only when
\* the configured number of iterations has been run.
C8_OneUpdatePerIteration ==
    /\ [](pc \in {"for", "sample", "update", "append", "done", "IndexError"} =>
            LET k == IF pc \in {"for", "done", "IndexError"} THEN i + 1 ELSE i
                upd == IF pc = "append" THEN k + 1 ELSE k
            IN  /\ Len(loss_history) = k
                /\ Len(params.applied) = upd
                /\ opt_state.count = upd
                /\ \A t \in 1..upd : /\ params.applied[t].count = t
                                     /\ params.applied[t].grad.at = t - 1
                /\ Terminated => k = num_iters)
    /\ [][(Terminated' /\ ~Terminated) => (pc = "for" /\ i + 1 = num_iters)]_vars
    /\ [][(pc = "for" /\ pc' = "for") =>
            /\ Len(loss_history') = Len(loss_history)
            /\ params' = params]_vars

C8_Witness ==
    /\ pc = "done"
    /\ num_iters >= 2
    /\ Len(loss_history) = num_iters
    /\ Len(params.applied) = num_iters

(***************************************************************************)
(* Properties of the energy and log-density functions.                     *)
(***************************************************************************)
Returned(f) == pc = "returned" /\ ret.fn = f

Declared == <<call.n, call.dim>>

\* C9: energy_fn and the two logp return no value for an input whose shape is
\* not the declared (n, dim): the call ends in an error.
C9_ShapeMismatchRejected ==
    (pc = "returned" /\ call.x.shape # Declared) => ~ret.out.ok

\* what is rejected: energy_fn and the sampler's logp raise exactly when the
\* number of entries is not n * dim; make_logp's logp raises exactly then or
\* when the input is not 2-dimensional
C9_OnlySizeChecked ==
    pc = "returned" =>
        LET sized == Prod(call.x.shape) = call.n * call.dim
        IN  IF ret.fn = "make_logp.logp"
            THEN ret.out.ok <=> (sized /\ Len(call.x.shape) = 2)
            ELSE ret.out.ok <=> sized

\* energy_fn has returned a value for an input of shape (dim, n), n # dim
C9_Witness ==
    /\ Returned("energy_fn")
    /\ call.n # call.dim
    /\ call.x.shape = <<call.dim, call.n>>
    /\ ret.out.ok
    /\ IsFinite(ret.out.val)

\* 1/|x_p - x_q| computed from the entries, particles numbered from 0
PairTerm(a, d, p, q) ==
    RInv(FromInt(Norm([c \in 1..d |-> a.data[p * d + c] - a.data[q * d + c]])))

\* the sum of PairTerm over a set of pairs
RECURSIVE PairSetSum(_, _, _)
PairSetSum(a, d, S) ==
    IF S = {} THEN Zero
    ELSE LET e == CHOOSE e \in S : TRUE
         IN  RAdd(PairTerm(a, d, e[1], e[2]), PairSetSum(a, d, S \ {e}))

UnorderedPairs(m) == {e \in (0..(m - 1)) \X (0..(m - 1)) : e[1] < e[2]}

SumOfSquares(a) == ISum([c \in 1..Len(a.data) |-> a.data[c] * a.data[c]])

\* C10: energy_fn sums 1/rij over exactly the pairs (i, j) with 0 <= i < j < n:
\* each unordered pair once, n(n-1)/2 terms, none with i = j, none for n = 1;
\* the terms are computed for the enumerated pairs only.
C10_PairsOnce ==
    (Returned("energy_fn") /\ ret.out.ok) =>
        LET m == call.n
            d == call.dim
            out == ret.out
            T == 1..Len(out.pairs)
        IN  /\ Len(out.pairs) = (m * (m - 1)) \div 2
            /\ {out.pairs[t] : t \in T} = UnorderedPairs(m)
            /\ \A t \in T : out.pairs[t][1] # out.pairs[t][2]
            /\ Len(out.terms) = Len(out.pairs)
            /\ \A t \in T :
                  out.terms[t] = PairTerm(call.x, d, out.pairs[t][1], out.pairs[t][2])
            /\ out.val = RAdd(FromInt(SumOfSquares(call.x)),
                              PairSetSum(call.x, d, UnorderedPairs(m)))
            /\ m = 1 => (out.pairs = <<>> /\ out.val = FromInt(SumOfSquares(call.x)))
            /\ (\A t \in T : out.terms[t] # PInf) => IsFinite(out.val)

\* three particles at distinct places: three terms, a finite energy
C10_Witness ==
    /\ Returned("energy_fn")
    /\ call.n = 3
    /\ call.x.shape = <<3, call.dim>>
    /\ ret.out.ok
    /\ Len(ret.out.pairs) = 3
    /\ IsFinite(ret.out.val)
    /\ ret.out.val # FromInt(SumOfSquares(call.x))

\* the energy of a single particle is its confinement term alone
C10_WitnessSingle ==
    /\ Returned("energy_fn")
    /\ call.n = 1
    /\ ret.out.ok
    /\ ret.out.pairs = <<>>
    /\ ret.out.val = FromInt(1)

(***************************************************************************)
(* Properties of the variational estimator.                                *)
(***************************************************************************)
\* the three series whose standard errors are reported, with the squares of
\* the reported standard errors
Reported ==
    <<[v |-> observable.Floc, se_sq |-> observable.F_std_sq],
      [v |-> Tup(Eloc), se_sq |-> observable.E_std_sq],
      [v |-> Tup([k \in Chains |-> RNeg(logpx[k])]), se_sq |-> observable.S_std_sq]>>

\* C11: each reported standard error is the standard deviation with divisor
\* (batch - 1) over sqrt(batch): SE^2 * batch * (batch - 1) equals the sum over
\* the batch of (value - batch mean)^2.
C11_SampleStdError ==
    pc = "observed" =>
        \A r \in 1..Len(Reported) :
            RMul(Reported[r].se_sq, FromInt(batch * (batch - 1)))
              = SumSqDev(Reported[r].v)

\* what is reported: the standard deviation with divisor batch over
\* sqrt(batch), SE^2 * batch * batch equals the sum of squared deviations
C11_PopulationStdError ==
    pc = "observed" =>
        \A r \in 1..Len(Reported) :
            /\ IsFinite(Reported[r].se_sq)
            /\ RMul(Reported[r].se_sq, FromInt(batch * batch))
                 = SumSqDev(Reported[r].v)

\* an evaluation in which the three series all vary over the batch
C11_Witness ==
    /\ pc = "observed"
    /\ batch >= 2
    /\ \A r \in 1..Len(Reported) :
          /\ RLess(Zero, Reported[r].se_sq)
          /\ RMul(Reported[r].se_sq, FromInt(batch * batch)) = SumSqDev(Reported[r].v)
          /\ RMul(Reported[r].se_sq, FromInt(batch * (batch - 1))) # SumSqDev(Reported[r].v)

=============================================================================
